---- MODULE Spec2Model ----
(***************************************************************************)
(* Exam-session proctoring state machine of the Exam Management System:    *)
(* the student-facing Flask application (src/exam.py) together with the    *)
(* administrator's restore action of the admin application (src/app.py).   *)
(*                                                                         *)
(* A Flask session is a dictionary: it is modelled as a function whose     *)
(* DOMAIN is the set of keys present.  A Backendless row is modelled the   *)
(* same way (a JSON object).  Every request handler is one atomic action;  *)
(* the outcome of each outbound storage call (success or                   *)
(* RequestException) is an input of the action.                            *)
(***************************************************************************)
EXTENDS Integers, Sequences, FiniteSets, TLC

VARIABLES
    session,            \* browser session -> Flask session dictionary
    terminations,       \* rows of the ExamTerminations table, in insertion order
    credentials,        \* rows of the exam_login table, in sentAt order
    DEEPFACE_AVAILABLE, \* set once at import time
    resp,               \* the response of the request just handled, if the step was one
    lastTick,           \* history: the class of the latest decision-table tick since login
    track,              \* history: the ticks since login while they follow a scenario
    results,            \* rows of the ExamResults table, in insertion order
    papers,             \* the Exams and Questions tables: exam id -> exam paper
    now,                \* datetime.now(timezone.utc)
    reached,            \* history: the pages rendered to the session since its login
    pending             \* submit requests that have read the tables and not yet written

vars == <<session, terminations, credentials, DEEPFACE_AVAILABLE, resp,
          lastTick, track, results, papers, now, reached, pending>>

\* The state only the gated pages and the submission touch.
exam == <<results, papers, now, pending>>

----------------------------------------------------------------------------
(* Bounds of the model *)

MaxTerminations == 1
MaxResults == 2
MaxNow == 2
MaxInFlight == 2
MaxQuestions == 10

Sessions == {"s1"}
Emails == {"a@x"}
ExamIds == {"x1", "x2"}
Passwords == {"p1", "p2"}
Scores == {40, 70}
Images == {"", "corrupt", "img0", "img1", "img2"}
ClientViolations == {"TAB_SWITCH"}

\* The exam_login table: the applicant was invited to exam x1 twice (password p1,
\* later p2) and never to exam x2.
IssuedCredentials ==
    << [applicantEmail |-> "a@x", examId |-> "x1", generatedPassword |-> "p1"],
       [applicantEmail |-> "a@x", examId |-> "x1", generatedPassword |-> "p2"] >>

\* A startDateTime / endDateTime: whether parser.isoparse and the comparison with
\* the timezone-aware now succeed on it, and the instant it denotes.
DateTime(at) == [parses |-> TRUE, at |-> at]
Malformed == [parses |-> FALSE, at |-> 0]

Question(objectId, correctAnswer) == [objectId |-> objectId, correctAnswer |-> correctAnswer]

\* What get_exam_paper_by_exam_id returns for an exam that is stored.
ExamPaper(startDateTime, endDateTime, questions) ==
    [found |-> TRUE, startDateTime |-> startDateTime, endDateTime |-> endDateTime,
     questions |-> questions, applicationId |-> "app1"]

\* The questions of an exam of n questions: the objectIds are 1..n, the correct
\* answer of the odd ones is A and of the even ones B.
Questions(n) == [i \in 1..n |-> Question(i, IF i % 2 = 1 THEN "A" ELSE "B")]

TwoQuestions == Questions(2)

\* The exams an applicant can be invited to: open from 1 to 1 with two questions,
\* the same without questions, and two questions with a window that does not parse.
ExamPapers ==
    { ExamPaper(DateTime(1), DateTime(1), TwoQuestions),
      ExamPaper(DateTime(1), DateTime(1), <<>>),
      ExamPaper(Malformed, Malformed, TwoQuestions) }

\* request.form of a submission: the answer chosen for each question answered.
\* Both answers right; one right and one not answered; both wrong.
Forms ==
    { [q \in {1, 2} |-> IF q = 1 THEN "A" ELSE "B"],
      [q \in {1} |-> "A"],
      [q \in {1, 2} |-> IF q = 1 THEN "B" ELSE "A"] }

\* How the two reads of get_exam_paper_by_exam_id end.
FetchOutcomes == {"ok", "exam_error", "questions_error"}

PLACEHOLDER == "ENTER_YOUR_ID"

\* The <exam_id> of the login URL: an exam id or the placeholder of the landing page.
LoginUrls == {"x1", PLACEHOLDER}
NULL == "null"

----------------------------------------------------------------------------
(* Dictionaries: session.get / session[k] = v / session.pop / session.clear *)

EmptyDict == [k \in {} |-> TRUE]

Get(d, k, default) == IF k \in DOMAIN d THEN d[k] ELSE default

Set(d, k, v) == [x \in (DOMAIN d) \cup {k} |-> IF x = k THEN v ELSE d[x]]

PopAll(d, ks) == [x \in (DOMAIN d) \ ks |-> d[x]]

IdentityKeys == {"student_logged_in", "student_email", "exam_id"}
CounterKeys == {"no_face_count", "multiple_face_count", "no_face_warning_count"}

LoggedIn(s) == Get(session[s], "student_logged_in", FALSE)

----------------------------------------------------------------------------
(* Storage helpers of src/exam.py *)

\* Variant: the query filters on is_active, the column the admin application uses.
check_active_termination_wrongField(email, exam_id, readOk) ==
    /\ readOk
    /\ \E i \in 1..Len(terminations) :
          /\ terminations[i]["applicantEmail"] = email
          /\ terminations[i]["examId"] = exam_id
          /\ Get(terminations[i], "is_active", FALSE) = TRUE

\* Variant: a failed read is reported as "blocked".
check_active_termination_failClosed(email, exam_id, readOk) ==
    \/ ~readOk
    \/ \E i \in 1..Len(terminations) :
          /\ terminations[i]["applicantEmail"] = email
          /\ terminations[i]["examId"] = exam_id
          /\ Get(terminations[i], "isBlocked", FALSE) = TRUE

\* check_active_termination: any row of the pair with isBlocked = true;
\* a failed read is reported as "not blocked".
check_active_termination(email, exam_id, readOk) ==
    /\ readOk
    /\ \E i \in 1..Len(terminations) :
          /\ terminations[i]["applicantEmail"] = email
          /\ terminations[i]["examId"] = exam_id
          /\ Get(terminations[i], "isBlocked", FALSE) = TRUE

\* Variant: the row is posted with isBlocked = false.
TerminationRow_unblocked(email, exam_id, violation_type, current_score) ==
    [k \in {"applicantEmail", "examId", "terminationReason", "currentScore", "isBlocked"} |->
        CASE k = "applicantEmail" -> email
          [] k = "examId" -> exam_id
          [] k = "terminationReason" -> violation_type
          [] k = "currentScore" -> current_score
          [] k = "isBlocked" -> FALSE]

\* The row terminate_exam posts.
TerminationRow(email, exam_id, violation_type, current_score) ==
    [k \in {"applicantEmail", "examId", "terminationReason", "currentScore", "isBlocked"} |->
        CASE k = "applicantEmail" -> email
          [] k = "examId" -> exam_id
          [] k = "terminationReason" -> violation_type
          [] k = "currentScore" -> current_score
          [] k = "isBlocked" -> TRUE]

\* Variant: the row is stored whether or not the POST raises.
terminate_exam_alwaysWrites(email, exam_id, violation_type, current_score, writeOk) ==
    Append(terminations, TerminationRow(email, exam_id, violation_type, current_score))

\* terminate_exam: the table after the call; a failed write leaves it as it was.
terminate_exam(email, exam_id, violation_type, current_score, writeOk) ==
    IF writeOk
    THEN Append(terminations, TerminationRow(email, exam_id, violation_type, current_score))
    ELSE terminations

\* get_login_credential: the latest row of the pair (sortBy sentAt DESC, pageSize 1);
\* NULL when there is none or the read fails.
get_login_credential(email, exam_id, readOk) ==
    LET idx == {i \in 1..Len(credentials) :
                   /\ credentials[i].applicantEmail = email
                   /\ credentials[i].examId = exam_id}
    IN IF readOk /\ idx # {}
       THEN credentials[CHOOSE i \in idx : \A j \in idx : j <= i].generatedPassword
       ELSE NULL

\* A read of get_exam_paper_by_exam_id that did not answer with the rows.
FetchFailed(fetch) == IF fetch = "ok" THEN {} ELSE {"get_exam_paper_by_exam_id"}

\* What get_exam_paper_by_exam_id returns when it returns None.
NoPaper ==
    [found |-> FALSE, startDateTime |-> Malformed, endDateTime |-> Malformed,
     questions |-> <<>>, applicationId |-> NULL]

\* get_exam_paper_by_exam_id: None when the exam read fails or finds nothing; the
\* paper with no questions when the question read answers with an error status.
get_exam_paper_by_exam_id(exam_id, fetch) ==
    IF fetch = "exam_error" \/ exam_id \notin DOMAIN papers
    THEN NoPaper
    ELSE IF fetch = "questions_error"
    THEN [papers[exam_id] EXCEPT !.questions = <<>>]
    ELSE papers[exam_id]

\* The row save_exam_result posts; the score is a percentage in hundredths.
ResultRow(result_data) ==
    [applicantEmail |-> result_data.email, examId |-> result_data.exam_id,
     applicationId |-> result_data.application_id, score |-> result_data.score,
     totalQuestions |-> result_data.total_questions]

\* Variant: the row is inserted only when the pair has none (a conditional write).
save_exam_result_ifAbsent(result_data, writeOk) ==
    IF /\ writeOk
       /\ ~\E i \in 1..Len(results) :
             /\ results[i].applicantEmail = result_data.email
             /\ results[i].examId = result_data.exam_id
    THEN Append(results, ResultRow(result_data))
    ELSE results

\* save_exam_result: the table after the call; a failed write leaves it as it was.
save_exam_result(result_data, writeOk) ==
    IF writeOk THEN Append(results, ResultRow(result_data)) ELSE results

\* Variant: the query compares the applicantEmail column with the exam id.
check_if_result_exists_wrongColumn(email, exam_id, readOk) ==
    /\ readOk
    /\ \E i \in 1..Len(results) :
          results[i].applicantEmail = exam_id /\ results[i].examId = exam_id

\* check_if_result_exists: a failed read is reported as "no result".
check_if_result_exists(email, exam_id, readOk) ==
    /\ readOk
    /\ \E i \in 1..Len(results) :
          results[i].applicantEmail = email /\ results[i].examId = exam_id

----------------------------------------------------------------------------
(* History kept for the properties: the classification of each tick that   *)
(* reached the decision table since the last successful login.             *)

Off == <<"off">>

Scenarios ==
    { <<"zero", "zero", "zero", "zero", "one", "zero">>,
      <<"zero", "one", "zero", "one", "zero", "one", "zero", "one", "zero">>,
      <<"zero", "zero", "zero", "zero", "zero">>,
      <<"multi", "multi">>,
      <<"multi", "one", "multi">>,
      <<"multi", "zero", "multi">> }

IsPrefix(h, sc) == Len(h) <= Len(sc) /\ \A i \in 1..Len(h) : h[i] = sc[i]

Extend(h, c) ==
    IF h # Off /\ \E sc \in Scenarios : IsPrefix(Append(h, c), sc)
    THEN Append(h, c)
    ELSE Off

----------------------------------------------------------------------------
(* Face detection and the decision table of api_check_face *)

\* Number of detections with confidence > 0.8; -1 when decoding or detection raises.
detected_faces_count(image_data) ==
    CASE image_data = "img0" -> 0
      [] image_data = "img1" -> 1
      [] image_data = "img2" -> 2
      [] OTHER -> -1

face_detected(image_data) == detected_faces_count(image_data) = 1

multiple_faces(image_data) == detected_faces_count(image_data) > 1

TickClass(image_data) ==
    IF face_detected(image_data) THEN "one"
    ELSE IF multiple_faces(image_data) THEN "multi"
    ELSE "zero"

Locals(nf, mf, nw, term, vt) ==
    [no_face_count |-> nf, multiple_face_count |-> mf, no_face_warning_count |-> nw,
     should_terminate |-> term, violation_type |-> vt]

\* Variant: the termination threshold is one too high.
MultipleFacesBranch_offByOne(nf, mf, nw) ==
    LET m == mf + 1 IN
    IF m >= 3
    THEN Locals(nf, m, nw, TRUE, "MULTIPLE_FACES_DETECTED")
    ELSE Locals(nf, m, nw, FALSE, NULL)

\* Variant: the counter is compared without being incremented.
MultipleFacesBranch_noIncrement(nf, mf, nw) ==
    LET m == mf IN
    IF m >= 2
    THEN Locals(nf, m, nw, TRUE, "MULTIPLE_FACES_DETECTED")
    ELSE Locals(nf, m, nw, FALSE, NULL)

\* The multiple-faces branch: the local variables after it.
MultipleFacesBranch(nf, mf, nw) ==
    LET m == mf + 1 IN
    IF m >= 2
    THEN Locals(nf, m, nw, TRUE, "MULTIPLE_FACES_DETECTED")
    ELSE Locals(nf, m, nw, FALSE, NULL)

\* Variant: the consecutive threshold is one too high.
NoFaceBranch_offByOne(nf, mf, nw) ==
    LET n == nf + 1 IN
    IF n >= 6
    THEN Locals(n, mf, nw, TRUE, "NO_FACE_DETECTED_FOR_5_CHECKS")
    ELSE IF n = 1
    THEN LET w == nw + 1 IN
         IF w >= 5
         THEN Locals(n, mf, w, TRUE, "NO_FACE_DETECTED_5_WARNINGS")
         ELSE Locals(n, mf, w, FALSE, NULL)
    ELSE Locals(n, mf, nw, FALSE, NULL)

\* Variant: every no-face tick below the consecutive threshold adds a warning.
NoFaceBranch_warnsEveryTick(nf, mf, nw) ==
    LET n == nf + 1 IN
    IF n >= 5
    THEN Locals(n, mf, nw, TRUE, "NO_FACE_DETECTED_FOR_5_CHECKS")
    ELSE LET w == nw + 1 IN
         IF w >= 5
         THEN Locals(n, mf, w, TRUE, "NO_FACE_DETECTED_5_WARNINGS")
         ELSE Locals(n, mf, w, FALSE, NULL)

\* The no-face branch: the local variables after it.
NoFaceBranch(nf, mf, nw) ==
    LET n == nf + 1 IN
    IF n >= 5
    THEN Locals(n, mf, nw, TRUE, "NO_FACE_DETECTED_FOR_5_CHECKS")
    ELSE IF n = 1
    THEN LET w == nw + 1 IN
         IF w >= 5
         THEN Locals(n, mf, w, TRUE, "NO_FACE_DETECTED_5_WARNINGS")
         ELSE Locals(n, mf, w, FALSE, NULL)
    ELSE Locals(n, mf, nw, FALSE, NULL)

\* The local variables no_face_count, multiple_face_count, no_face_warning_count,
\* should_terminate and violation_type after the if / elif / else.
TickLocals(image_data, nf, mf, nw) ==
    IF face_detected(image_data) THEN Locals(nf, mf, nw, FALSE, NULL)
    ELSE IF multiple_faces(image_data) THEN MultipleFacesBranch(nf, mf, nw)
    ELSE NoFaceBranch(nf, mf, nw)

\* The session writes made inside the branches.
BranchWrites(sess, image_data, L) ==
    IF face_detected(image_data)
    THEN Set(Set(sess, "no_face_count", 0), "multiple_face_count", 0)
    ELSE IF multiple_faces(image_data)
    THEN Set(Set(sess, "multiple_face_count", L.multiple_face_count), "no_face_count", 0)
    ELSE sess

\* "Update session data": the three local variables are stored after the branches.
UpdateSessionData(sess, L) ==
    Set(Set(Set(sess, "no_face_count", L.no_face_count),
            "no_face_warning_count", L.no_face_warning_count),
        "multiple_face_count", L.multiple_face_count)

\* The session after the decision table, before the termination action.
SessionAfterTick(sess, image_data, L) ==
    UpdateSessionData(BranchWrites(sess, image_data, L), L)

\* The response of a handler, with what the properties need of the request:
\*   result    the exit taken (an HTTP status or the page rendered or redirected to)
\*   terminate, reason   the terminate flag of the JSON body and the violation type
\*   tick      the classification of the image ("one", "multi", "zero")
\*   table     whether the decision table was evaluated
\*   failed    the storage calls of this request that raised RequestException
\*   score     the current_score read from the request (-1: not read)
\*   percentage   the percentage_score computed, in hundredths (-1: not computed)
\*   form      the answers of the request, when a score was computed
\*   before    the session the request came with, when it was replaced by a login
Response(op, s, email, exam_id, result) ==
    [op |-> op, sess |-> s, email |-> email, exam_id |-> exam_id, password |-> NULL,
     result |-> result, terminate |-> FALSE, reason |-> NULL, tick |-> NULL,
     table |-> FALSE, failed |-> {}, score |-> -1, percentage |-> -1, form |-> EmptyDict,
     before |-> EmptyDict]

Failed(name, ok) == IF ok THEN {} ELSE {name}

\* No request has just been answered.
NoResponse == Response("none", "none", NULL, NULL, "none")

----------------------------------------------------------------------------
(* Request handlers of src/exam.py *)

\* Variant: the cumulative warning count is kept when the session has one.
LoginSession_keepsWarnings(sess, email, login_exam_id) ==
    Set(Set(Set(Set(Set(Set(sess,
        "student_logged_in", TRUE),
        "student_email", email),
        "exam_id", login_exam_id),
        "no_face_count", 0),
        "multiple_face_count", 0),
        "no_face_warning_count", Get(sess, "no_face_warning_count", 0))

\* The session after a successful login: the identity and the three counters at 0.
LoginSession(sess, email, login_exam_id) ==
    Set(Set(Set(Set(Set(Set(sess,
        "student_logged_in", TRUE),
        "student_email", email),
        "exam_id", login_exam_id),
        "no_face_count", 0),
        "multiple_face_count", 0),
        "no_face_warning_count", 0)

\* POST/GET /test_login/<exam_id>.  The outcome of each storage read is chosen
\* where the read is made.
test_login(s, exam_id, method, email, password, login_exam_id) ==
    LET sess == session[s]
        is_placeholder == exam_id = PLACEHOLDER
        \* a response that echoes the pair and the password of the form
        R(result, failed) ==
            [Response("test_login", s, email, login_exam_id, result)
                EXCEPT !.password = password, !.failed = failed]
        Stay(r) ==
            /\ resp' = r
            /\ UNCHANGED <<session, terminations, credentials, DEEPFACE_AVAILABLE, lastTick, track,
                         exam, reached>>
    IN
    IF LoggedIn(s) /\ Get(sess, "exam_id", NULL) = exam_id /\ ~is_placeholder
    THEN Stay(Response("test_login", s, NULL, NULL, "already_logged_in"))
    ELSE IF method = "GET"
    THEN Stay(Response("test_login", s, NULL, NULL, "login_form"))
    ELSE IF login_exam_id = "" \/ email = "" \/ password = ""
    THEN Stay(Response("test_login", s, NULL, NULL, "fields_required"))
    ELSE \E termReadOk \in BOOLEAN :
         LET f1 == Failed("check_active_termination", termReadOk) IN
         IF check_active_termination(email, login_exam_id, termReadOk)
         THEN Stay(R("access_denied", f1))
         ELSE \E credReadOk \in BOOLEAN :
              LET f2 == f1 \cup Failed("get_login_credential", credReadOk) IN
              IF get_login_credential(email, login_exam_id, credReadOk) = password
              THEN /\ session' = [session EXCEPT ![s] =
                          LoginSession(sess, email, login_exam_id)]
                   /\ resp' = [R("login_ok", f2) EXCEPT !.before = sess]
                   /\ lastTick' = [lastTick EXCEPT ![s] = NULL]
                   /\ track' = [track EXCEPT ![s] = <<>>]
                   /\ reached' = [reached EXCEPT ![s] = {}]
                   /\ UNCHANGED <<terminations, credentials, DEEPFACE_AVAILABLE, exam>>
              ELSE Stay(R("invalid_credentials", f2))

\* Variant: the login flag is left in the session.
ClearIdentity_keepsLogin(sess) == PopAll(sess, {"student_email", "exam_id"})

\* Variant: the mock is never used.
MockMode_never == FALSE

\* "if not DEEPFACE_AVAILABLE" of api_check_face.
MockMode == ~DEEPFACE_AVAILABLE

\* Variant: the termination logic is applied to the pre-check probes too.
applies_termination_logic_always(is_pre_check) == TRUE

\* "if not is_pre_check" of api_check_face.
applies_termination_logic(is_pre_check) == ~is_pre_check

\* Variant: a request without image data goes on to the detection.
no_image_data_never(image_data) == FALSE

\* "if not base64_img" of api_check_face.
no_image_data(image_data) == image_data = ""

\* The termination action of api_check_face: the session after the identity keys are popped.
ClearIdentity(sess) == PopAll(sess, IdentityKeys)

\* POST /api/check_face.  current_score is read from the request, and the ledger
\* write is made, only by the termination action.
api_check_face(s, image_data, is_pre_check) ==
    LET sess == session[s]
        exam_id == Get(sess, "exam_id", NULL)
        email == Get(sess, "student_email", NULL)
        no_face_count == Get(sess, "no_face_count", 0)
        multiple_face_count == Get(sess, "multiple_face_count", 0)
        no_face_warning_count == Get(sess, "no_face_warning_count", 0)
        L == TickLocals(image_data, no_face_count, multiple_face_count, no_face_warning_count)
        R(result) == Response("check_face", s, email, exam_id, result)
        Stay(r) ==
            /\ resp' = r
            /\ UNCHANGED <<session, terminations, credentials, DEEPFACE_AVAILABLE, lastTick, track,
                         exam, reached>>
    IN
    IF ~LoggedIn(s)
    THEN Stay(R("401"))
    ELSE IF MockMode
    THEN /\ session' = [session EXCEPT ![s] =
                Set(Set(Set(sess, "no_face_count", 0), "multiple_face_count", 0),
                    "no_face_warning_count", 0)]
         /\ resp' = [R("200") EXCEPT !.tick = "one"]
         /\ UNCHANGED <<terminations, credentials, DEEPFACE_AVAILABLE, lastTick, track,
                         exam, reached>>
    ELSE IF no_image_data(image_data)
    THEN Stay(R("400"))
    ELSE IF ~applies_termination_logic(is_pre_check)
    THEN Stay([R("200") EXCEPT !.tick = TickClass(image_data)])
    ELSE /\ lastTick' = [lastTick EXCEPT ![s] = TickClass(image_data)]
         /\ track' = [track EXCEPT ![s] = Extend(@, TickClass(image_data))]
         /\ UNCHANGED <<credentials, DEEPFACE_AVAILABLE, exam>>
         /\ IF L.should_terminate
            THEN \E current_score \in Scores, writeOk \in BOOLEAN :
                   /\ writeOk => Len(terminations) < MaxTerminations
                   /\ terminations' =
                         terminate_exam(email, exam_id, L.violation_type, current_score, writeOk)
                   /\ session' = [session EXCEPT ![s] =
                         ClearIdentity(SessionAfterTick(sess, image_data, L))]
                   /\ resp' = [R("200") EXCEPT !.terminate = TRUE, !.reason = L.violation_type,
                                               !.tick = TickClass(image_data), !.table = TRUE,
                                               !.score = current_score,
                                               !.failed = Failed("terminate_exam", writeOk)]
                   /\ reached' = [reached EXCEPT ![s] = {}]
            ELSE /\ session' = [session EXCEPT ![s] = SessionAfterTick(sess, image_data, L)]
                 /\ resp' = [R("200") EXCEPT !.tick = TickClass(image_data), !.table = TRUE]
                 /\ UNCHANGED <<terminations, reached>>

\* POST /api/report_violation
api_report_violation(s, violation_type, current_score) ==
    LET sess == session[s]
        exam_id == Get(sess, "exam_id", NULL)
        email == Get(sess, "student_email", NULL)
        R(result) == Response("report_violation", s, email, exam_id, result)
        Stay(r) ==
            /\ resp' = r
            /\ UNCHANGED <<session, terminations, credentials, DEEPFACE_AVAILABLE, lastTick, track,
                         exam, reached>>
    IN
    IF ~LoggedIn(s)
    THEN Stay(R("401"))
    ELSE IF exam_id = NULL \/ email = NULL
    THEN Stay(R("400"))
    ELSE \E writeOk \in BOOLEAN :
         /\ writeOk => Len(terminations) < MaxTerminations
         /\ terminations' = terminate_exam(email, exam_id, violation_type, current_score, writeOk)
         /\ session' = [session EXCEPT ![s] = PopAll(sess, IdentityKeys \cup CounterKeys)]
         /\ resp' = [R("200") EXCEPT !.terminate = TRUE, !.reason = violation_type,
                                     !.score = current_score,
                                     !.failed = Failed("terminate_exam", writeOk)]
         /\ reached' = [reached EXCEPT ![s] = {}]
         /\ UNCHANGED <<credentials, DEEPFACE_AVAILABLE, lastTick, track, exam>>

\* GET /exam_logout
exam_logout(s) ==
    /\ session' = [session EXCEPT ![s] = PopAll(@, IdentityKeys \cup CounterKeys)]
    /\ resp' = Response("exam_logout", s, NULL, NULL, "to_index")
    /\ reached' = [reached EXCEPT ![s] = {}]
    /\ UNCHANGED <<terminations, credentials, DEEPFACE_AVAILABLE, lastTick, track, exam>>


----------------------------------------------------------------------------
(* The gated pages of src/exam.py *)

\* Variant: the end of the window is not compared.
is_exam_open_noEnd(exam_paper) ==
    IF exam_paper.startDateTime.parses /\ exam_paper.endDateTime.parses
    THEN exam_paper.startDateTime.at <= now
    ELSE TRUE

\* The time validation of the gated pages: the window is open when now lies in
\* it, and also when parsing or comparing raises.
is_exam_open(exam_paper) ==
    IF exam_paper.startDateTime.parses /\ exam_paper.endDateTime.parses
    THEN exam_paper.startDateTime.at <= now /\ now <= exam_paper.endDateTime.at
    ELSE TRUE

\* A request that changes nothing but the response.
Redirect(r) ==
    /\ resp' = r
    /\ UNCHANGED <<session, terminations, credentials, DEEPFACE_AVAILABLE, lastTick, track,
                   exam, reached>>

\* A gated page is rendered to session s.
Render(s, page, r) ==
    /\ resp' = r
    /\ reached' = [reached EXCEPT ![s] = @ \cup {page}]
    /\ UNCHANGED <<session, terminations, credentials, DEEPFACE_AVAILABLE, lastTick, track,
                   exam>>

\* Variant: only the identity keys are popped.
ClearSession_identityOnly(sess) == PopAll(sess, IdentityKeys)

\* session.clear()
ClearSession(sess) == EmptyDict

\* Variant: the ledger is not looked up.
student_exam_required_noLedger(s, exam_id, termReadOk) ==
    IF ~LoggedIn(s)
    THEN "to_login"
    ELSE IF Get(session[s], "exam_id", NULL) # exam_id
    THEN "exam_mismatch"
    ELSE "pass"

\* Variant: the exam id of the URL is not compared with the session's.
student_exam_required_anyExam(s, exam_id, termReadOk) ==
    IF ~LoggedIn(s)
    THEN "to_login"
    ELSE IF check_active_termination(Get(session[s], "student_email", NULL), exam_id,
                                     termReadOk)
    THEN "access_denied"
    ELSE "pass"

\* The decorator of the gated routes: where the request goes.  "pass" is the
\* route itself, reached only by a logged-in session whose exam id is the one of
\* the URL and whose pair is not found blocked.
student_exam_required(s, exam_id, termReadOk) ==
    IF ~LoggedIn(s)
    THEN "to_login"
    ELSE IF Get(session[s], "exam_id", NULL) # exam_id
    THEN "exam_mismatch"
    ELSE IF check_active_termination(Get(session[s], "student_email", NULL), exam_id,
                                     termReadOk)
    THEN "access_denied"
    ELSE "pass"

\* The outcomes of the decorator's ledger read, when the decorator makes it.
LedgerReads(s, exam_id) ==
    IF LoggedIn(s) /\ Get(session[s], "exam_id", NULL) = exam_id THEN BOOLEAN ELSE {TRUE}

\* The exits of the decorator: the redirect to the login page, the same with the
\* identity popped, and the redirect to the finished page with the session cleared.
Refuse(op, s, exam_id, verdict) ==
    LET sess == session[s]
        R(result) == Response(op, s, Get(sess, "student_email", NULL), exam_id, result)
    IN
    IF verdict = "to_login"
    THEN Redirect(R("to_login"))
    ELSE /\ session' = [session EXCEPT ![s] =
                IF verdict = "exam_mismatch"
                THEN PopAll(sess, IdentityKeys)
                ELSE ClearSession(sess)]
         /\ resp' = R(verdict)
         /\ reached' = [reached EXCEPT ![s] = {}]
         /\ UNCHANGED <<terminations, credentials, DEEPFACE_AVAILABLE, lastTick, track, exam>>

\* GET /pre_exam_check/<exam_id>
pre_exam_check(s, exam_id) ==
    LET email == Get(session[s], "student_email", NULL)
        R(result, failed) ==
            [Response("pre_exam_check", s, email, exam_id, result) EXCEPT !.failed = failed]
    IN
    \E termReadOk \in LedgerReads(s, exam_id) :
    LET verdict == student_exam_required(s, exam_id, termReadOk)
        f0 == Failed("check_active_termination", termReadOk)
    IN
    IF verdict # "pass"
    THEN Refuse("pre_exam_check", s, exam_id, verdict)
    ELSE \E existsReadOk \in BOOLEAN :
         LET f1 == f0 \cup Failed("check_if_result_exists", existsReadOk) IN
         IF check_if_result_exists(email, exam_id, existsReadOk)
         THEN Redirect(R("already_submitted", f1))
         ELSE \E fetch \in FetchOutcomes :
              LET exam_paper == get_exam_paper_by_exam_id(exam_id, fetch) IN
              IF ~exam_paper.found
              THEN Redirect(R("paper_not_found", f1 \cup FetchFailed(fetch)))
              ELSE IF ~is_exam_open(exam_paper)
              THEN Redirect(R("exam_closed", f1))
              ELSE Render(s, "pre_check", R("pre_check_view", f1))

\* GET /exam_instructions/<exam_id>
exam_instructions(s, exam_id) ==
    LET email == Get(session[s], "student_email", NULL)
        R(result, failed) ==
            [Response("exam_instructions", s, email, exam_id, result) EXCEPT !.failed = failed]
    IN
    \E termReadOk \in LedgerReads(s, exam_id) :
    LET verdict == student_exam_required(s, exam_id, termReadOk)
        f0 == Failed("check_active_termination", termReadOk)
    IN
    IF verdict # "pass"
    THEN Refuse("exam_instructions", s, exam_id, verdict)
    ELSE \E fetch \in FetchOutcomes :
         LET exam_paper == get_exam_paper_by_exam_id(exam_id, fetch) IN
         IF ~exam_paper.found
         THEN Redirect(R("paper_not_found", f0 \cup FetchFailed(fetch)))
         ELSE \E existsReadOk \in BOOLEAN :
              LET f1 == f0 \cup Failed("check_if_result_exists", existsReadOk) IN
              IF check_if_result_exists(email, exam_id, existsReadOk)
              THEN Redirect(R("already_submitted", f1))
              ELSE IF ~is_exam_open(exam_paper)
              THEN Redirect(R("exam_closed", f1))
              ELSE Render(s, "instructions", R("instructions_view", f1))

\* GET /start_exam/<exam_id>
start_exam(s, exam_id) ==
    LET email == Get(session[s], "student_email", NULL)
        R(result, failed) ==
            [Response("start_exam", s, email, exam_id, result) EXCEPT !.failed = failed]
    IN
    \E termReadOk \in LedgerReads(s, exam_id) :
    LET verdict == student_exam_required(s, exam_id, termReadOk)
        f0 == Failed("check_active_termination", termReadOk)
    IN
    IF verdict # "pass"
    THEN Refuse("start_exam", s, exam_id, verdict)
    ELSE \E existsReadOk \in BOOLEAN :
         LET f1 == f0 \cup Failed("check_if_result_exists", existsReadOk) IN
         IF check_if_result_exists(email, exam_id, existsReadOk)
         THEN Redirect(R("already_submitted", f1))
         ELSE \E fetch \in FetchOutcomes :
              LET exam_paper == get_exam_paper_by_exam_id(exam_id, fetch) IN
              IF ~exam_paper.found \/ exam_paper.questions = <<>>
              THEN Redirect(R("paper_not_found", f1 \cup FetchFailed(fetch)))
              ELSE IF ~is_exam_open(exam_paper)
              THEN Redirect(R("exam_closed", f1))
              ELSE Render(s, "exam", R("exam_view", f1))

----------------------------------------------------------------------------
(* Scoring and submission *)

\* Variant: the digits after the second decimal are cut off.
round2_truncates(num, den) == (num * 100) \div den

\* round(num / den, 2) for num / den >= 0, in hundredths: the nearest hundredth,
\* a tie going to the even one.
round2(num, den) ==
    LET q == (num * 100) \div den
        r == (num * 100) % den
    IN IF 2 * r > den \/ (2 * r = den /\ q % 2 = 1) THEN q + 1 ELSE q

\* raw_score: the questions whose submitted answer is not empty and equals the
\* question's correctAnswer (objectIds are unique).
raw_score(questions, form) ==
    Cardinality({ i \in 1..Len(questions) :
        LET student_answer == Get(form, questions[i].objectId, NULL) IN
        /\ student_answer \notin {NULL, ""}
        /\ student_answer = questions[i].correctAnswer })

\* percentage_score, in hundredths of a percent.
percentage_score(raw, total_questions) ==
    IF total_questions > 0 THEN round2(raw * 100, total_questions) ELSE 0

\* The result_data of submit_exam.
ResultData(email, exam_id, exam_paper, form) ==
    [email |-> email, exam_id |-> exam_id, application_id |-> exam_paper.applicationId,
     score |-> percentage_score(raw_score(exam_paper.questions, form),
                                Len(exam_paper.questions)),
     total_questions |-> Len(exam_paper.questions)]

\* No submit request in flight.
NoRequest ==
    [busy |-> FALSE, sess |-> NULL, snap |-> EmptyDict, failed |-> {}, form |-> EmptyDict,
     result_data |-> [email |-> NULL, exam_id |-> NULL, application_id |-> NULL,
                      score |-> 0, total_questions |-> 0]]

\* The end of submit_exam: save_exam_result and, when it succeeds, the session of
\* the request (snap: the session the request was started with) without its keys.
SaveAndRespond(s, snap, result_data, form, failed) ==
    LET R(result, f) ==
            [Response("submit_exam", s, result_data.email, result_data.exam_id, result)
                EXCEPT !.failed = f, !.percentage = result_data.score, !.form = form]
    IN
    \E writeOk \in BOOLEAN :
       /\ writeOk => Len(results) < MaxResults
       /\ results' = save_exam_result(result_data, writeOk)
       /\ IF writeOk
          THEN /\ session' = [session EXCEPT ![s] = PopAll(snap, IdentityKeys \cup CounterKeys)]
               /\ reached' = [reached EXCEPT ![s] = {}]
               /\ resp' = R("submitted", failed)
          ELSE /\ resp' = R("save_failed", failed \cup {"save_exam_result"})
               /\ UNCHANGED <<session, reached>>
       /\ UNCHANGED <<terminations, credentials, DEEPFACE_AVAILABLE, lastTick, track,
                      papers, now>>

\* Variant: only a missing paper is refused.
exam_data_missing_onlyNone(exam_paper) == ~exam_paper.found

\* "not exam_paper or not exam_paper['questions']" of submit_exam.
exam_data_missing(exam_paper) == ~exam_paper.found \/ exam_paper.questions = <<>>

\* Variant: the submission is refused outside the exam window.
SubmitChecks_windowChecked(s, exam_id, form, termReadOk, existsReadOk, fetch) ==
    LET email == Get(session[s], "student_email", NULL)
        verdict == student_exam_required(s, exam_id, termReadOk)
        f1 == Failed("check_active_termination", termReadOk)
                 \cup Failed("check_if_result_exists", existsReadOk)
        exam_paper == get_exam_paper_by_exam_id(exam_id, fetch)
        Exit(result, failed, result_data) ==
            [result |-> result, failed |-> failed, result_data |-> result_data]
    IN
    IF verdict # "pass"
    THEN Exit(verdict, {}, NoRequest.result_data)
    ELSE IF check_if_result_exists(email, exam_id, existsReadOk)
    THEN Exit("already_submitted", f1, NoRequest.result_data)
    ELSE IF exam_data_missing(exam_paper)
    THEN Exit("data_missing", f1 \cup FetchFailed(fetch), NoRequest.result_data)
    ELSE IF ~is_exam_open(exam_paper)
    THEN Exit("exam_closed", f1, NoRequest.result_data)
    ELSE Exit("write", f1, ResultData(email, exam_id, exam_paper, form))

\* submit_exam up to the write, given the outcomes of its reads: the exit taken
\* ("write" when the request goes on to save_exam_result), the reads that failed
\* and the result_data computed.
SubmitChecks(s, exam_id, form, termReadOk, existsReadOk, fetch) ==
    LET email == Get(session[s], "student_email", NULL)
        verdict == student_exam_required(s, exam_id, termReadOk)
        f1 == Failed("check_active_termination", termReadOk)
                 \cup Failed("check_if_result_exists", existsReadOk)
        exam_paper == get_exam_paper_by_exam_id(exam_id, fetch)
        Exit(result, failed, result_data) ==
            [result |-> result, failed |-> failed, result_data |-> result_data]
    IN
    IF verdict # "pass"
    THEN Exit(verdict, {}, NoRequest.result_data)
    ELSE IF check_if_result_exists(email, exam_id, existsReadOk)
    THEN Exit("already_submitted", f1, NoRequest.result_data)
    ELSE IF exam_data_missing(exam_paper)
    THEN Exit("data_missing", f1 \cup FetchFailed(fetch), NoRequest.result_data)
    ELSE Exit("write", f1, ResultData(email, exam_id, exam_paper, form))

\* The outcomes of the already-submitted read and of the paper reads of
\* submit_exam, when it makes them.
ExistsReads(s, exam_id, termReadOk) ==
    IF student_exam_required(s, exam_id, termReadOk) = "pass" THEN BOOLEAN ELSE {TRUE}

PaperReads(s, exam_id, termReadOk, existsReadOk) ==
    IF /\ student_exam_required(s, exam_id, termReadOk) = "pass"
       /\ ~check_if_result_exists(Get(session[s], "student_email", NULL), exam_id,
                                  existsReadOk)
    THEN FetchOutcomes
    ELSE {"ok"}

\* The exits of submit_exam before the write.
SubmitRefuse(s, exam_id, checks) ==
    IF checks.result \in {"to_login", "exam_mismatch", "access_denied"}
    THEN Refuse("submit_exam", s, exam_id, checks.result)
    ELSE Redirect([Response("submit_exam", s, Get(session[s], "student_email", NULL),
                            exam_id, checks.result) EXCEPT !.failed = checks.failed])

\* POST /submit_exam/<exam_id>, handled without another request in between.
submit_exam(s, exam_id, form) ==
    \E termReadOk \in LedgerReads(s, exam_id) :
    \E existsReadOk \in ExistsReads(s, exam_id, termReadOk) :
    \E fetch \in PaperReads(s, exam_id, termReadOk, existsReadOk) :
    LET checks == SubmitChecks(s, exam_id, form, termReadOk, existsReadOk, fetch) IN
    IF checks.result # "write"
    THEN SubmitRefuse(s, exam_id, checks)
    ELSE /\ SaveAndRespond(s, session[s], checks.result_data, form, checks.failed)
         /\ UNCHANGED pending

\* POST /submit_exam/<exam_id> handled by a worker thread r, first part: the request
\* has passed the checks and computed the score; the write is still to come.
submit_exam_reads(r, s, exam_id, form) ==
    /\ ~pending[r].busy
    /\ \E termReadOk \in LedgerReads(s, exam_id) :
       \E existsReadOk \in ExistsReads(s, exam_id, termReadOk) :
       \E fetch \in PaperReads(s, exam_id, termReadOk, existsReadOk) :
       LET checks == SubmitChecks(s, exam_id, form, termReadOk, existsReadOk, fetch) IN
       IF checks.result # "write"
       THEN SubmitRefuse(s, exam_id, checks)
       ELSE /\ pending' = [pending EXCEPT ![r] =
                  [busy |-> TRUE, sess |-> s, snap |-> session[s],
                   failed |-> checks.failed, form |-> form,
                   result_data |-> checks.result_data]]
            /\ resp' = NoResponse
            /\ UNCHANGED <<session, terminations, credentials, DEEPFACE_AVAILABLE,
                           lastTick, track, results, papers, now, reached>>

\* Second part: the write and the response of the request worker r holds.
submit_exam_write(r) ==
    /\ pending[r].busy
    /\ SaveAndRespond(pending[r].sess, pending[r].snap, pending[r].result_data,
                      pending[r].form, pending[r].failed)
    /\ pending' = [pending EXCEPT ![r] = NoRequest]

----------------------------------------------------------------------------
(* Administrator's operations of src/app.py *)

\* remove_termination_status: PUT {is_active: false} on the row with that objectId
\* (the row's position in the table); the table after the call and whether it succeeded.
remove_termination_status(termination_object_id, writeOk) ==
    IF writeOk /\ termination_object_id \in 1..Len(terminations)
    THEN [ok |-> TRUE,
          table |-> [terminations EXCEPT ![termination_object_id] = Set(@, "is_active", FALSE)]]
    ELSE [ok |-> FALSE, table |-> terminations]

\* GET /remove_termination/<exam_id>/<termination_object_id>/<email>, as the logged-in
\* administrator; get_exam_paper_by_exam_id returns a paper or None.
remove_termination(exam_id, termination_object_id, email) ==
    LET R(result) == Response("remove_termination", "admin", NULL, NULL, result) IN
    \E exam_paper \in BOOLEAN :
    IF ~exam_paper
    THEN /\ resp' = R("exam_not_found")
         /\ UNCHANGED <<session, terminations, credentials, DEEPFACE_AVAILABLE, lastTick, track,
                         exam, reached>>
    ELSE \E writeOk \in BOOLEAN :
         LET put == remove_termination_status(termination_object_id, writeOk) IN
         /\ terminations' = put.table
         /\ resp' = R(IF put.ok THEN "removed" ELSE "failed")
         /\ UNCHANGED <<session, credentials, DEEPFACE_AVAILABLE, lastTick, track,
                         exam, reached>>

----------------------------------------------------------------------------

\* The worker threads that can hold a submit request.
Workers == 1..MaxInFlight

\* The application with exam x1 stored as exam_paper, the session of every browser
\* being sess: empty ExamTerminations and ExamResults tables, the invitations sent.
StartFor(browsers, exam_paper, sess) ==
    /\ session = [s \in browsers |-> sess]
    /\ terminations = <<>>
    /\ credentials = IssuedCredentials
    /\ DEEPFACE_AVAILABLE \in BOOLEAN
    /\ resp = NoResponse
    /\ lastTick = [s \in browsers |-> NULL]
    /\ track = [s \in browsers |-> <<>>]
    /\ results = <<>>
    /\ papers = [x \in {"x1"} |-> exam_paper]
    /\ now = 0
    /\ reached = [s \in browsers |-> {}]
    /\ pending = [r \in Workers |-> NoRequest]

StartWith(exam_paper, sess) == StartFor(Sessions, exam_paper, sess)

\* The application started: no session yet.
Start(exam_paper) == StartWith(exam_paper, EmptyDict)

Init == Start(ExamPaper(DateTime(1), DateTime(1), TwoQuestions))

Login ==
    \/ \E s \in Sessions, exam_id \in LoginUrls :
           test_login(s, exam_id, "GET", "", "", "")
    \/ \E s \in Sessions, exam_id \in LoginUrls,
          email \in Emails, password \in Passwords \cup {""}, login_exam_id \in ExamIds :
           test_login(s, exam_id, "POST", email, password, login_exam_id)

CheckFace ==
    \E s \in Sessions, image_data \in Images, is_pre_check \in BOOLEAN :
        api_check_face(s, image_data, is_pre_check)

ReportViolation ==
    \E s \in Sessions, violation_type \in ClientViolations, current_score \in Scores :
        api_report_violation(s, violation_type, current_score)

Logout == \E s \in Sessions : exam_logout(s)

RemoveTermination ==
    \E exam_id \in ExamIds, termination_object_id \in 1..MaxTerminations, email \in Emails :
        remove_termination(exam_id, termination_object_id, email)

Next ==
    \/ Login
    \/ CheckFace
    \/ ReportViolation
    \/ Logout
    \/ RemoveTermination

Spec == Init /\ [][Next]_vars

----------------------------------------------------------------------------
(* The student application: the gated pages and the submission *)

ExamInit == \E exam_paper \in ExamPapers : Start(exam_paper)

\* The images of the polls: one face or two.
PollImages == {"img1", "img2"}

Authenticate ==
    \E s \in Sessions, email \in Emails, password \in Passwords :
        test_login(s, "x1", "POST", email, password, "x1")

PollFace ==
    \E s \in Sessions, image_data \in PollImages, is_pre_check \in BOOLEAN :
        api_check_face(s, image_data, is_pre_check)

EnterPreCheck == \E s \in Sessions, exam_id \in ExamIds : pre_exam_check(s, exam_id)

EnterInstructions == \E s \in Sessions, exam_id \in ExamIds : exam_instructions(s, exam_id)

EnterExam == \E s \in Sessions, exam_id \in ExamIds : start_exam(s, exam_id)

Submit ==
    \E s \in Sessions, exam_id \in ExamIds, form \in Forms : submit_exam(s, exam_id, form)

\* Time passes.
ClockTick ==
    /\ now < MaxNow
    /\ now' = now + 1
    /\ resp' = NoResponse
    /\ UNCHANGED <<session, terminations, credentials, DEEPFACE_AVAILABLE, lastTick,
                   track, results, papers, reached, pending>>

\* The gate and the submission, while time passes.
GateNext ==
    \/ Authenticate
    \/ EnterPreCheck
    \/ EnterInstructions
    \/ EnterExam
    \/ ReportViolation
    \/ Submit
    \/ Logout
    \/ ClockTick

GateSpec == ExamInit /\ [][GateNext]_vars

\* The gate, the submission and the face polls.
PollNext ==
    \/ Authenticate
    \/ EnterPreCheck
    \/ EnterInstructions
    \/ EnterExam
    \/ PollFace
    \/ ReportViolation
    \/ Submit
    \/ Logout

PollSpec == ExamInit /\ [][PollNext]_vars

----------------------------------------------------------------------------
(* The submission and its scoring, for exams of 1 to MaxQuestions questions *)

\* The applicant has logged in for exam x1.
ScoreInit ==
    \E n \in 1..MaxQuestions :
        StartWith(ExamPaper(DateTime(1), DateTime(1), Questions(n)),
                  LoginSession(EmptyDict, "a@x", "x1"))

\* The other option.
WrongAnswer(correctAnswer) == IF correctAnswer = "A" THEN "B" ELSE "A"

\* A form for an exam of n questions: the first right, the next wrong, and of the
\* others the even ones sent empty and the odd ones not sent.
ScoreForm(n, right, wrong) ==
    [i \in {j \in 1..n : j <= right + wrong \/ j % 2 = 0} |->
        IF i <= right THEN Questions(n)[i].correctAnswer
        ELSE IF i <= right + wrong THEN WrongAnswer(Questions(n)[i].correctAnswer)
        ELSE ""]

SubmitAnswers ==
    \E s \in Sessions, right \in 0..Len(papers["x1"].questions) :
    \E wrong \in 0..(Len(papers["x1"].questions) - right) :
        submit_exam(s, "x1", ScoreForm(Len(papers["x1"].questions), right, wrong))

ScoreNext == SubmitAnswers

ScoreSpec == ScoreInit /\ [][ScoreNext]_vars

----------------------------------------------------------------------------
(* The same with the submission handled by concurrent worker threads *)

SubmitBegin ==
    \E r \in Workers, s \in Sessions, exam_id \in ExamIds, form \in Forms :
        submit_exam_reads(r, s, exam_id, form)

SubmitEnd == \E r \in Workers : submit_exam_write(r)

RaceNext ==
    \/ Authenticate
    \/ SubmitBegin
    \/ SubmitEnd
    \/ Logout

RaceSpec == Init /\ [][RaceNext]_vars

----------------------------------------------------------------------------
(* One applicant logged in for exam x1 from two browsers *)

Browsers == {"s1", "s2"}

TwinInit ==
    StartFor(Browsers, ExamPaper(DateTime(1), DateTime(1), TwoQuestions),
             LoginSession(EmptyDict, "a@x", "x1"))

TwinPoll ==
    \E s \in Browsers, image_data \in PollImages : api_check_face(s, image_data, FALSE)

TwinReport ==
    \E s \in Browsers, violation_type \in ClientViolations, current_score \in Scores :
        api_report_violation(s, violation_type, current_score)

TwinSubmit == \E s \in Browsers, form \in Forms : submit_exam(s, "x1", form)

TwinLogout == \E s \in Browsers : exam_logout(s)

TwinNext ==
    \/ TwinPoll
    \/ TwinReport
    \/ TwinSubmit
    \/ TwinLogout

TwinSpec == TwinInit /\ [][TwinNext]_vars

----------------------------------------------------------------------------
(* The exam taken while its window closes *)

LateNext ==
    \/ Authenticate
    \/ EnterExam
    \/ PollFace
    \/ Submit
    \/ ClockTick

LateSpec == Init /\ [][LateNext]_vars

----------------------------------------------------------------------------
(* Vocabulary of the properties *)

\* The stored value of a counter of session s.
Stored(s, k) == Get(session[s], k, 0)

\* The last request was a check_face of session s that evaluated the decision table
\* (sensor available, image present, not a pre-check probe).
TableTick(s) == resp.op = "check_face" /\ resp.sess = s /\ resp.table

\* The rows of the ledger that belong to a pair.
RowsOf(email, exam_id) ==
    {i \in 1..Len(terminations) :
        terminations[i]["applicantEmail"] = email /\ terminations[i]["examId"] = exam_id}

\* A row on which the administrator's restore has succeeded.
Restored(i) == "is_active" \in DOMAIN terminations[i] /\ terminations[i]["is_active"] = FALSE

\* A row written with blocked = true.
WrittenBlocked(i) == Get(terminations[i], "isBlocked", FALSE) = TRUE

\* The last request was a login form posted with all fields, for the pair (email, exam_id).
LoginAttempt(email, exam_id) ==
    /\ resp.op = "test_login"
    /\ resp.result \in {"access_denied", "invalid_credentials", "login_ok"}
    /\ resp.email = email
    /\ resp.exam_id = exam_id

CorrectPassword(email, exam_id) == get_login_credential(email, exam_id, TRUE)

Zeros(n) == [i \in 1..n |-> "zero"]

----------------------------------------------------------------------------
(* C1 *)

\* C1 (as claimed): once a blocked row has been written for a pair and no row of the
\* pair has been restored, no login attempt for the pair is accepted (each is refused
\* with "access denied" and creates no session), whatever the password.
C1_Original ==
    \A email \in Emails, exam_id \in ExamIds :
        ( /\ LoginAttempt(email, exam_id)
          /\ \E i \in RowsOf(email, exam_id) : WrittenBlocked(i)
          /\ \A i \in RowsOf(email, exam_id) : ~Restored(i) )
        => resp.result # "login_ok"

\* C1 (amended): under the same condition, every login attempt for the pair whose
\* ledger lookup did not fail is answered with "access denied", whatever the password.
C1_BlockedLoginDenied ==
    \A email \in Emails, exam_id \in ExamIds :
        ( /\ LoginAttempt(email, exam_id)
          /\ "check_active_termination" \notin resp.failed
          /\ \E i \in RowsOf(email, exam_id) : WrittenBlocked(i)
          /\ \A i \in RowsOf(email, exam_id) : ~Restored(i) )
        => resp.result = "access_denied"

\* A login with the latest issued password is refused for a blocked pair.
C1_Witness ==
    \E email \in Emails, exam_id \in ExamIds :
        /\ LoginAttempt(email, exam_id)
        /\ resp.result = "access_denied"
        /\ resp.password = CorrectPassword(email, exam_id)
        /\ \E i \in RowsOf(email, exam_id) : WrittenBlocked(i)
        /\ \A i \in RowsOf(email, exam_id) : ~Restored(i)

----------------------------------------------------------------------------
(* C2 *)

\* C2 (as claimed): when every blocked row of a pair has been restored, the gate's
\* lookup returns false for the pair and a login with the latest issued password,
\* whose reads succeed, is accepted.
C2_RestoreUnblocks ==
    \A email \in Emails, exam_id \in ExamIds :
        ( /\ \E i \in RowsOf(email, exam_id) : WrittenBlocked(i)
          /\ \A i \in RowsOf(email, exam_id) : WrittenBlocked(i) => Restored(i) )
        => /\ ~check_active_termination(email, exam_id, TRUE)
           /\ ( /\ LoginAttempt(email, exam_id)
                /\ resp.failed = {}
                /\ resp.password = CorrectPassword(email, exam_id) )
              => resp.result = "login_ok"

----------------------------------------------------------------------------
(* C3 *)

\* C3 (as claimed): the stored consecutive counters are never negative, and right
\* after a decision-table tick that saw exactly one face both are 0.
C3_ResetOnSingleFace ==
    \A s \in Sessions :
        /\ Stored(s, "no_face_count") >= 0
        /\ Stored(s, "multiple_face_count") >= 0
        /\ (TableTick(s) /\ resp.tick = "one")
              => /\ Stored(s, "no_face_count") = 0
                 /\ Stored(s, "multiple_face_count") = 0

----------------------------------------------------------------------------
(* C4 *)

\* C4 (as claimed): after login, zero faces on ticks 1-4 and one face on tick 5 do not
\* terminate, and a zero-face tick 6 does not terminate either and leaves the
\* consecutive no-face count at 1.
C4_BrokenStreakRestarts ==
    \A s \in Sessions :
        /\ (TableTick(s) /\ track[s] = Append(Zeros(4), "one")) => ~resp.terminate
        /\ (TableTick(s) /\ track[s] = Append(Append(Zeros(4), "one"), "zero"))
              => /\ ~resp.terminate
                 /\ Stored(s, "no_face_count") = 1

----------------------------------------------------------------------------
(* C5 *)

AlternatingStreaks == <<"zero", "one", "zero", "one", "zero", "one", "zero", "one", "zero">>

\* C5 (as claimed): with five zero-face streaks of length 1, each followed by a
\* single-face tick, the cumulative warning count after the first tick of streak j
\* is j, and the first tick of the fifth streak terminates with
\* NO_FACE_DETECTED_5_WARNINGS.
C5_FiveWarnings ==
    \A s \in Sessions, j \in 1..5 :
        (TableTick(s) /\ track[s] = SubSeq(AlternatingStreaks, 1, 2 * j - 1))
           => /\ Stored(s, "no_face_warning_count") = j
              /\ resp.terminate = (j = 5)
              /\ (j = 5) => resp.reason = "NO_FACE_DETECTED_5_WARNINGS"

----------------------------------------------------------------------------
(* C6 *)

\* The ledger holds a blocked row of the session's pair with this reason.
BlockedRowWith(email, exam_id, reason) ==
    \E i \in RowsOf(email, exam_id) :
        WrittenBlocked(i) /\ terminations[i]["terminationReason"] = reason

\* What C6 says of ticks 1-5 except the ledger row: no termination on ticks 1-4,
\* termination with NO_FACE_DETECTED_FOR_5_CHECKS on tick 5, session de-authenticated.
FiveZeroTicks(s) ==
    /\ \A n \in 1..4 : (TableTick(s) /\ track[s] = Zeros(n))
                          => (~resp.terminate /\ LoggedIn(s))
    /\ (TableTick(s) /\ track[s] = Zeros(5))
          => /\ resp.terminate
             /\ resp.reason = "NO_FACE_DETECTED_FOR_5_CHECKS"
             /\ ~LoggedIn(s)

\* C6 (as claimed): ... and after tick 5 a blocked row with that reason exists.
C6_Original ==
    \A s \in Sessions :
        /\ FiveZeroTicks(s)
        /\ (TableTick(s) /\ track[s] = Zeros(5))
              => BlockedRowWith(resp.email, resp.exam_id, "NO_FACE_DETECTED_FOR_5_CHECKS")

\* C6 (amended): ... and after tick 5 a blocked row with that reason exists unless
\* the ledger write failed.
C6_FiveZeroTicksTerminate ==
    \A s \in Sessions :
        /\ FiveZeroTicks(s)
        /\ (TableTick(s) /\ track[s] = Zeros(5) /\ "terminate_exam" \notin resp.failed)
              => BlockedRowWith(resp.email, resp.exam_id, "NO_FACE_DETECTED_FOR_5_CHECKS")

\* The fifth consecutive zero-face tick after login has terminated and written the row.
C6_Witness ==
    \E s \in Sessions :
        /\ TableTick(s)
        /\ track[s] = Zeros(5)
        /\ resp.terminate
        /\ ~LoggedIn(s)
        /\ BlockedRowWith(resp.email, resp.exam_id, "NO_FACE_DETECTED_FOR_5_CHECKS")

----------------------------------------------------------------------------
(* C7 *)

\* C7: right after a decision-table tick, the tick has terminated the session
\* (terminate flag set, session de-authenticated) exactly when the stored counters
\* satisfy multiple_face_count >= 2 or no_face_count >= 5 or no_face_warning_count >= 5.
C7_TerminatesExactlyAtThresholds ==
    \A s \in Sessions :
        TableTick(s) =>
            /\ resp.terminate <=> ( \/ Stored(s, "multiple_face_count") >= 2
                                    \/ Stored(s, "no_face_count") >= 5
                                    \/ Stored(s, "no_face_warning_count") >= 5 )
            /\ resp.terminate <=> ~LoggedIn(s)

\* A tick has terminated the session with the consecutive no-face count at its
\* threshold and the two other counters below theirs.
C7_Witness ==
    \E s \in Sessions :
        /\ TableTick(s)
        /\ resp.terminate
        /\ ~LoggedIn(s)
        /\ Stored(s, "no_face_count") >= 5
        /\ Stored(s, "multiple_face_count") < 2
        /\ Stored(s, "no_face_warning_count") < 5

----------------------------------------------------------------------------
(* C8 *)

\* The step is a request of session s other than a successful login.
SameSessionStep(s) ==
    /\ LoggedIn(s)
    /\ ~(resp'.op = "test_login" /\ resp'.result = "login_ok")

\* The step is a decision-table tick of session s.
TableTickStep(s) ==
    /\ LoggedIn(s)
    /\ resp'.op = "check_face" /\ resp'.sess = s /\ resp'.table

\* C8: between a login and the destruction of the session the stored cumulative
\* warning count never decreases while it is stored; a tick raises it by at most 1,
\* and a zero-face tick that follows a zero-face tick does not raise it, so a
\* run of consecutive zero-face ticks raises it at most once.
C8_WarningsMonotone ==
    [][ \A s \in Sessions :
          /\ (SameSessionStep(s) /\ "no_face_warning_count" \in DOMAIN session'[s])
                => session'[s]["no_face_warning_count"] >= Stored(s, "no_face_warning_count")
          /\ TableTickStep(s)
                => /\ session'[s]["no_face_warning_count"]
                        <= Stored(s, "no_face_warning_count") + 1
                   /\ (resp'.tick = "zero" /\ lastTick[s] = "zero")
                        => session'[s]["no_face_warning_count"]
                                = Stored(s, "no_face_warning_count")
      ]_vars

\* A second consecutive zero-face tick has been counted and the warning count is still 1.
C8_Witness ==
    \E s \in Sessions :
        /\ TableTick(s)
        /\ track[s] = Zeros(2)
        /\ Stored(s, "no_face_count") = 2
        /\ Stored(s, "no_face_warning_count") = 1

----------------------------------------------------------------------------
(* C9 *)

----------------------------------------------------------------------------
(* C10 *)

\* C10 (as claimed): a multiple-faces tick terminates only if the tick before it also
\* saw multiple faces: after login, multi / one / multi and multi / zero / multi
\* end with a warning and a stored multiple-face count of 1.
C10_InterruptedMultiFace ==
    \A s \in Sessions :
        ( /\ TableTick(s)
          /\ track[s] \in { <<"multi", "one", "multi">>, <<"multi", "zero", "multi">> } )
        => /\ ~resp.terminate
           /\ Stored(s, "multiple_face_count") = 1

----------------------------------------------------------------------------
(* C11 *)

\* The rows of a result table that belong to a pair.
ResultsOf(table, email, exam_id) ==
    {i \in 1..Len(table) : table[i].applicantEmail = email /\ table[i].examId = exam_id}

\* The step is a submit request of session s, answered.
SubmitStep(s) == resp'.op = "submit_exam" /\ resp'.sess = s

\* The exits of a gated route taken by the decorator.
GateRefusals == {"to_login", "exam_mismatch", "access_denied"}

\* C11: a submit of a session for whose pair a result row exists, and whose
\* already-submitted read does not fail, is rejected: no score is computed and the
\* result table is left as it is; and no step whose already-submitted read succeeds
\* adds a row for a pair that has one, so that with successful reads a pair has at
\* most one row.
C11_SubmitOnce ==
    [][ /\ \A s \in Sessions :
              ( /\ SubmitStep(s)
                /\ ResultsOf(results, Get(session[s], "student_email", NULL),
                             resp'.exam_id) # {}
                /\ "check_if_result_exists" \notin resp'.failed )
              => /\ resp'.result \in GateRefusals \cup {"already_submitted"}
                 /\ resp'.percentage = -1
                 /\ results' = results
        /\ \A email \in Emails, exam_id \in ExamIds :
              ( /\ ResultsOf(results, email, exam_id) # {}
                /\ ResultsOf(results', email, exam_id) # ResultsOf(results, email, exam_id) )
              => "check_if_result_exists" \in resp'.failed
      ]_vars

\* A logged-in session whose pair has one result row has submitted again and has
\* been sent to the finished page; the table still has the one row.
C11_Witness ==
    \E s \in Sessions :
        /\ resp.op = "submit_exam" /\ resp.sess = s
        /\ resp.result = "already_submitted"
        /\ resp.failed = {}
        /\ LoggedIn(s)
        /\ Cardinality(ResultsOf(results, resp.email, resp.exam_id)) = 1
        /\ Len(results) = 1

----------------------------------------------------------------------------
(* C12 *)

\* C12: a submit request that has passed the already-submitted check writes its
\* row when its write succeeds, whatever the result table holds by then; so two
\* requests of one pair that both passed the check before either wrote leave two
\* rows for the pair.
C12_WriteAfterCheckUnguarded ==
    [][ \A r \in Workers :
          (pending[r].busy /\ ~pending'[r].busy /\ resp'.result = "submitted")
             => results' = Append(results, ResultRow(pending[r].result_data))
      ]_vars

\* Two rows of one pair, the second written by a request none of whose reads failed.
C12_Witness ==
    /\ resp.op = "submit_exam"
    /\ resp.result = "submitted"
    /\ resp.failed = {}
    /\ Len(results) = 2
    /\ Cardinality(ResultsOf(results, resp.email, resp.exam_id)) = 2

----------------------------------------------------------------------------
(* C13 *)

\* The step is a face poll of session s that terminates the exam.
TerminatingPoll(s) ==
    /\ LoggedIn(s)
    /\ resp'.op = "check_face" /\ resp'.sess = s /\ resp'.terminate

\* The row the terminating poll of session s has to write: the session's pair, the
\* reason and the score of the request, blocked.
RowOfPoll(s) ==
    TerminationRow(session[s]["student_email"], session[s]["exam_id"],
                   resp'.reason, resp'.score)

\* The step is a poll, a violation report, a gated entry or a submit of session s.
ExamRequest(s) ==
    /\ resp'.sess = s
    /\ resp'.op \in {"check_face", "report_violation", "pre_exam_check",
                     "exam_instructions", "start_exam", "submit_exam"}

\* A request of a session that is not authenticated is refused and writes nothing.
RefusedWhenLoggedOut(s) ==
    (~LoggedIn(s) /\ ExamRequest(s))
       => /\ resp'.result \in {"401", "to_login"}
          /\ ~LoggedIn(s)'
          /\ terminations' = terminations
          /\ results' = results

----------------------------------------------------------------------------
(* C14 *)

\* C14 (as claimed): the pages are entered in the order pre-check, instructions,
\* exam: a session to which the exam page has been rendered since its login has
\* been rendered the instructions page, and one that has been rendered the
\* instructions page has been rendered the pre-check page.
C14_StepOrder ==
    \A s \in Sessions :
        /\ "exam" \in reached[s] => "instructions" \in reached[s]
        /\ "instructions" \in reached[s] => "pre_check" \in reached[s]

----------------------------------------------------------------------------
(* C15 *)

\* C15 (as claimed): a face poll of an authenticated session to which the exam page
\* has not been rendered since its login does not evaluate the decision table: it
\* changes no counter and does not terminate the session.
C15_NoTableBeforeExam ==
    [][ \A s \in Sessions :
          ( /\ LoggedIn(s)
            /\ "exam" \notin reached[s]
            /\ resp'.op = "check_face" /\ resp'.sess = s )
          => /\ ~resp'.table
             /\ ~resp'.terminate
             /\ LoggedIn(s)'
             /\ \A k \in CounterKeys : Get(session'[s], k, 0) = Stored(s, k)
      ]_vars

----------------------------------------------------------------------------
(* C16 *)

\* The step is a gated entry or a submit of the authenticated session s for the
\* exam it logged in for, while the ledger holds a blocked row of its pair.
BlockedEntry(s) ==
    /\ LoggedIn(s)
    /\ resp'.sess = s
    /\ resp'.op \in {"pre_exam_check", "exam_instructions", "start_exam", "submit_exam"}
    /\ resp'.exam_id = session[s]["exam_id"]
    /\ check_active_termination(session[s]["student_email"], session[s]["exam_id"], TRUE)

\* The request is denied: the session is empty, the answer is the redirect to the
\* finished page, no page is rendered and no result written.
Denied(s) ==
    /\ resp'.result = "access_denied"
    /\ session'[s] = EmptyDict
    /\ reached'[s] = {}
    /\ results' = results

\* C16 (as claimed): every gated entry and every submit of a session whose pair has
\* a blocked row is denied.
C16_Original ==
    [][ \A s \in Sessions : BlockedEntry(s) => Denied(s) ]_vars

\* C16 (amended): every such request whose ledger lookup does not fail is denied.
C16_BlockedEntryDenied ==
    [][ \A s \in Sessions :
          (BlockedEntry(s) /\ "check_active_termination" \notin resp'.failed)
             => Denied(s)
      ]_vars

\* A submit of a session that was logged in for a blocked pair has been denied and
\* the session is empty.
C16_Witness ==
    \E s \in Sessions :
        /\ resp.op = "submit_exam" /\ resp.sess = s
        /\ resp.result = "access_denied"
        /\ resp.email \in Emails
        /\ session[s] = EmptyDict
        /\ check_active_termination(resp.email, resp.exam_id, TRUE)
        /\ results = <<>>

----------------------------------------------------------------------------
(* C17 *)

GatedPages == {"pre_exam_check", "exam_instructions", "start_exam"}

WellFormed(exam_paper) ==
    exam_paper.startDateTime.parses /\ exam_paper.endDateTime.parses

InWindow(exam_paper) ==
    exam_paper.startDateTime.at <= now /\ now <= exam_paper.endDateTime.at

\* The request just answered was an entry to a gated page of exam x that the
\* decorator let through.
EntryAnswered(x) ==
    /\ resp.op \in GatedPages
    /\ resp.exam_id = x
    /\ resp.result \notin GateRefusals

----------------------------------------------------------------------------
(* C18 *)

\* The questions of a paper whose answer is in the form and equals the key.
CorrectlyAnswered(exam_paper, form) ==
    { i \in 1..Len(exam_paper.questions) :
        /\ exam_paper.questions[i].objectId \in DOMAIN form
        /\ form[exam_paper.questions[i].objectId] = exam_paper.questions[i].correctAnswer }

\* The request just answered was a submit that stored its result.
Stored_Result == resp.op = "submit_exam" /\ resp.result = "submitted"

\* C18: the row a submit stores for an exam of N >= 1 questions holds N and the
\* percentage K / N * 100 rounded to the nearest hundredth, K being the number of
\* questions answered with their key; it lies between 0 and 100, and is 70.00 for
\* 7 of 10.
C18_Percentage ==
    Stored_Result =>
        LET row == results[Len(results)]
            N == Len(papers[resp.exam_id].questions)
            K == Cardinality(CorrectlyAnswered(papers[resp.exam_id], resp.form))
        IN /\ N >= 1
           /\ row.totalQuestions = N
           /\ row.score = resp.percentage
           /\ 2 * (row.score * N - K * 10000) <= N
           /\ 2 * (K * 10000 - row.score * N) <= N
           /\ 0 <= row.score /\ row.score <= 10000
           /\ (N = 10 /\ K = 7) => row.score = 7000

\* 7 of 10 questions answered with their key, two wrongly and one not at all: the
\* row stored holds 70.00.
C18_Witness ==
    /\ Stored_Result
    /\ Len(papers[resp.exam_id].questions) = 10
    /\ Cardinality(CorrectlyAnswered(papers[resp.exam_id], resp.form)) = 7
    /\ Cardinality(DOMAIN resp.form) = 9
    /\ results[Len(results)].score = 7000

----------------------------------------------------------------------------
(* C19 *)

\* The request just answered was a submit for exam x, stored without questions,
\* that the decorator let through.
EmptyExamSubmit(x) ==
    /\ resp.op = "submit_exam"
    /\ resp.exam_id = x
    /\ resp.result \notin GateRefusals
    /\ papers[x].questions = <<>>

----------------------------------------------------------------------------
(* C20 *)

\* C20: while DeepFace is unavailable, every face poll of an authenticated session,
\* pre-check or not and whatever the image, answers 200 with a single face
\* detected and terminate = false, does not evaluate the decision table, stores 0
\* in the three counters, leaves the session authenticated and writes no row.
C20_MockPassThrough ==
    [][ \A s \in Sessions :
          ( /\ ~DEEPFACE_AVAILABLE
            /\ LoggedIn(s)
            /\ resp'.op = "check_face" /\ resp'.sess = s )
          => /\ resp'.result = "200"
             /\ resp'.tick = "one"
             /\ ~resp'.terminate
             /\ ~resp'.table
             /\ \A k \in CounterKeys : k \in DOMAIN session'[s] /\ session'[s][k] = 0
             /\ LoggedIn(s)'
             /\ terminations' = terminations
      ]_vars

\* DeepFace is unavailable and a poll of an authenticated session has been answered
\* with a single face and the counters at 0.
C20_Witness ==
    \E s \in Sessions :
        /\ ~DEEPFACE_AVAILABLE
        /\ resp.op = "check_face" /\ resp.sess = s
        /\ resp.result = "200"
        /\ resp.tick = "one"
        /\ ~resp.terminate
        /\ LoggedIn(s)
        /\ \A k \in CounterKeys : Stored(s, k) = 0
        /\ terminations = <<>>

----------------------------------------------------------------------------
(* C21 *)

\* C21: a face poll of an authenticated session sent with the pre-check flag,
\* whatever its image (one face, several, none, undecodable, missing) and with or
\* without DeepFace, leaves the three stored counters as they are, does not
\* evaluate the decision table, does not terminate, leaves the session
\* authenticated and writes no row.
C21_PreCheckProbeIsPure ==
    [][ \A s \in Sessions, image_data \in Images :
          (LoggedIn(s) /\ api_check_face(s, image_data, TRUE))
             => /\ \A k \in CounterKeys : Get(session'[s], k, 0) = Stored(s, k)
                /\ ~resp'.table
                /\ ~resp'.terminate
                /\ LoggedIn(s)'
                /\ terminations' = terminations
      ]_vars

\* With DeepFace available, a poll that saw several faces has been answered
\* without the decision table while the stored multiple-face count is 1: as a
\* proctoring tick it would have terminated the exam.
C21_Witness ==
    \E s \in Sessions :
        /\ DEEPFACE_AVAILABLE
        /\ resp.op = "check_face" /\ resp.sess = s
        /\ resp.result = "200"
        /\ resp.tick = "multi"
        /\ ~resp.table
        /\ ~resp.terminate
        /\ LoggedIn(s)
        /\ Stored(s, "multiple_face_count") = 1
        /\ terminations = <<>>

----------------------------------------------------------------------------
(* C22 *)

\* The step is a violation report of session s.
ReportStep(s) == resp'.op = "report_violation" /\ resp'.sess = s

\* The row a violation report of session s has to write: the session's pair, the
\* violation type and the score of the request, blocked.
RowOfReport(s) ==
    TerminationRow(session[s]["student_email"], session[s]["exam_id"],
                   resp'.reason, resp'.score)

\* The report of session s has destroyed the session: neither the identity nor a
\* counter is left in it.
SessionDestroyed(s) ==
    /\ resp'.result = "200"
    /\ resp'.terminate
    /\ resp'.reason \in ClientViolations
    /\ DOMAIN session'[s] \cap (IdentityKeys \cup CounterKeys) = {}

\* A report of a session that is not authenticated is answered 401 and changes
\* neither the ledger nor the session.
ReportRefused(s) ==
    (ReportStep(s) /\ ~LoggedIn(s))
       => /\ resp'.result = "401"
          /\ ~resp'.terminate
          /\ terminations' = terminations
          /\ session' = session

\* C22 (as claimed): a violation report of an authenticated session, whatever its
\* counters, appends one blocked row with the reported violation type for the
\* session's pair and destroys the session; a report of a session that is not
\* authenticated is refused and writes nothing.
C22_Original ==
    [][ \A s \in Sessions :
          /\ (ReportStep(s) /\ LoggedIn(s))
                => /\ terminations' = Append(terminations, RowOfReport(s))
                   /\ RowOfReport(s)["isBlocked"] = TRUE
                   /\ SessionDestroyed(s)
          /\ ReportRefused(s)
      ]_vars

\* C22 (amended): the same, except that a report whose ledger write fails appends
\* no row; the session is destroyed all the same.
C22_ReportTerminates ==
    [][ \A s \in Sessions :
          /\ (ReportStep(s) /\ LoggedIn(s))
                => /\ terminations' =
                         IF "terminate_exam" \in resp'.failed
                         THEN terminations
                         ELSE Append(terminations, RowOfReport(s))
                   /\ RowOfReport(s)["isBlocked"] = TRUE
                   /\ SessionDestroyed(s)
          /\ ReportRefused(s)
      ]_vars

\* A session that has sent no proctoring tick since its login has reported a
\* violation: the blocked row of its pair is in the ledger and the session is empty.
C22_Witness ==
    \E s \in Sessions :
        /\ resp.op = "report_violation" /\ resp.sess = s
        /\ resp.terminate
        /\ resp.failed = {}
        /\ lastTick[s] = NULL
        /\ DOMAIN session[s] \cap (IdentityKeys \cup CounterKeys) = {}
        /\ Len(terminations) = 1
        /\ terminations[1]["applicantEmail"] = resp.email
        /\ terminations[1]["examId"] = resp.exam_id
        /\ terminations[1]["terminationReason"] = "TAB_SWITCH"
        /\ terminations[1]["isBlocked"] = TRUE

----------------------------------------------------------------------------
(* C23 *)

\* The step is a login of session s that succeeded.
LoginOkStep(s) ==
    resp'.op = "test_login" /\ resp'.sess = s /\ resp'.result = "login_ok"

\* C23: a login that succeeds leaves the session authenticated for the pair of the
\* form with the three counters stored and equal to 0, whatever the session held
\* before (nothing, the counters a terminated exam left behind, or an
\* authenticated session with counters that are not 0), and writes no ledger row.
C23_LoginResetsCounters ==
    [][ \A s \in Sessions :
          LoginOkStep(s)
             => /\ \A k \in CounterKeys : k \in DOMAIN session'[s] /\ session'[s][k] = 0
                /\ LoggedIn(s)'
                /\ session'[s]["student_email"] = resp'.email
                /\ session'[s]["exam_id"] = resp'.exam_id
                /\ terminations' = terminations
      ]_vars

\* A login has succeeded over a session that was authenticated and whose three
\* counters were 4, 1 and 1: all three are 0 now.
C23_Witness ==
    \E s \in Sessions :
        /\ resp.op = "test_login" /\ resp.sess = s /\ resp.result = "login_ok"
        /\ Get(resp.before, "student_logged_in", FALSE)
        /\ Get(resp.before, "no_face_count", 0) = 4
        /\ Get(resp.before, "multiple_face_count", 0) = 1
        /\ Get(resp.before, "no_face_warning_count", 0) = 1
        /\ \A k \in CounterKeys : Stored(s, k) = 0
        /\ LoggedIn(s)

----------------------------------------------------------------------------
(* C24 *)

\* The step is a gated request (pre-check, instructions, exam page or submit) of
\* the authenticated session s for an exam other than the one it logged in for.
MismatchStep(s) ==
    /\ LoggedIn(s)
    /\ resp'.sess = s
    /\ resp'.op \in GatedPages \cup {"submit_exam"}
    /\ resp'.exam_id # session[s]["exam_id"]

\* C24: such a request is not served: it is answered with the redirect to the
\* login page, no page is rendered and no score computed, the login flag, the
\* email and the exam id are removed from the session, and neither a result nor
\* a ledger row is written.
C24_ExamMismatchLogsOut ==
    [][ \A s \in Sessions :
          MismatchStep(s)
             => /\ resp'.result = "exam_mismatch"
                /\ resp'.percentage = -1
                /\ DOMAIN session'[s] \cap IdentityKeys = {}
                /\ ~LoggedIn(s)'
                /\ reached'[s] = {}
                /\ results' = results
                /\ terminations' = terminations
      ]_vars

\* A session logged in for exam x1 has submitted for exam x2: it has been sent to
\* the login page, its identity is gone (the counters are still there) and both
\* tables are empty.
C24_Witness ==
    \E s \in Sessions :
        /\ resp.op = "submit_exam" /\ resp.sess = s
        /\ resp.exam_id = "x2"
        /\ resp.email \in Emails
        /\ resp.result = "exam_mismatch"
        /\ DOMAIN session[s] = CounterKeys
        /\ results = <<>>
        /\ terminations = <<>>

----------------------------------------------------------------------------
(* C25 *)

\* Session s is authenticated, the exam page has been rendered to it since its
\* login (which needs the window open), and now is later than the window's end.
EnteredAndLate(s) ==
    /\ LoggedIn(s)
    /\ "exam" \in reached[s]
    /\ WellFormed(papers[session[s]["exam_id"]])
    /\ now > papers[session[s]["exam_id"]].endDateTime.at

\* The step is a submit of session s for its exam, none of whose storage calls
\* fails, while its pair has neither a result nor a blocked row.
CleanSubmitStep(s) ==
    /\ SubmitStep(s)
    /\ resp'.exam_id = session[s]["exam_id"]
    /\ resp'.failed = {}
    /\ ResultsOf(results, session[s]["student_email"], session[s]["exam_id"]) = {}
    /\ ~check_active_termination(session[s]["student_email"], session[s]["exam_id"], TRUE)

\* C25: after the end of the window, a proctoring tick of a session that entered
\* the exam is answered 200 and decided by the decision table alone, and a submit
\* of such a session is scored and its row stored.
C25_NoWindowCheckMidExam ==
    [][ \A s \in Sessions :
          /\ \A image_data \in PollImages :
                ( /\ EnteredAndLate(s)
                  /\ DEEPFACE_AVAILABLE
                  /\ api_check_face(s, image_data, FALSE) )
                => /\ resp'.result = "200"
                   /\ resp'.table
                   /\ resp'.terminate =
                         TickLocals(image_data, Stored(s, "no_face_count"),
                                    Stored(s, "multiple_face_count"),
                                    Stored(s, "no_face_warning_count")).should_terminate
          /\ (EnteredAndLate(s) /\ CleanSubmitStep(s))
                => /\ resp'.result = "submitted"
                   /\ resp'.percentage =
                         percentage_score(
                             raw_score(papers[resp'.exam_id].questions, resp'.form),
                             Len(papers[resp'.exam_id].questions))
                   /\ Len(results') = Len(results) + 1
                   /\ results'[Len(results')].applicantEmail = session[s]["student_email"]
                   /\ results'[Len(results')].examId = resp'.exam_id
                   /\ results'[Len(results')].score = resp'.percentage
      ]_vars

\* A session that entered the exam has sent a proctoring tick after the end of
\* the window: the decision table was evaluated and the session goes on.
C25_Witness ==
    \E s \in Sessions :
        /\ EnteredAndLate(s)
        /\ resp.op = "check_face" /\ resp.sess = s
        /\ resp.result = "200"
        /\ resp.table
        /\ resp.tick = "multi"
        /\ Stored(s, "multiple_face_count") = 1

----------------------------------------------------------------------------
(* C26 *)

\* The ledger lookup of the request just answered failed, and no other read did.
OnlyLookupFailed == resp.failed = {"check_active_termination"}

\* What an entry to a gated page of exam x answers to an authenticated session of
\* email whose pair has no blocked row, when its reads succeed.
UnblockedEntry(op, email, x) ==
    LET submitted == ResultsOf(results, email, x) # {}
        missing == x \notin DOMAIN papers
        closed == ~is_exam_open(papers[x])
    IN
    CASE op = "pre_exam_check" ->
            IF submitted THEN "already_submitted"
            ELSE IF missing THEN "paper_not_found"
            ELSE IF closed THEN "exam_closed"
            ELSE "pre_check_view"
      [] op = "exam_instructions" ->
            IF missing THEN "paper_not_found"
            ELSE IF submitted THEN "already_submitted"
            ELSE IF closed THEN "exam_closed"
            ELSE "instructions_view"
      [] op = "start_exam" ->
            IF submitted THEN "already_submitted"
            ELSE IF missing \/ papers[x].questions = <<>> THEN "paper_not_found"
            ELSE IF closed THEN "exam_closed"
            ELSE "exam_view"

\* C26: a login and an entry to a gated page whose ledger lookup fails are not
\* refused as blocked and do not fail: they are answered by the remaining checks
\* alone, as for a pair without a ledger row.  The login succeeds exactly when the
\* password is the one issued last, and the entry leaves the session authenticated
\* and ends where the result table, the paper and the window send it.
C26_LookupFailureIsNotBlocked ==
    /\ (resp.op = "test_login" /\ "check_active_termination" \in resp.failed)
          => /\ resp.result \in {"login_ok", "invalid_credentials"}
             /\ (resp.result = "login_ok")
                   = ( /\ "get_login_credential" \notin resp.failed
                       /\ resp.password = CorrectPassword(resp.email, resp.exam_id) )
    /\ (resp.op \in GatedPages /\ "check_active_termination" \in resp.failed)
          => /\ resp.result \notin GateRefusals
             /\ LoggedIn(resp.sess)
             /\ OnlyLookupFailed
                   => resp.result = UnblockedEntry(resp.op, resp.email, resp.exam_id)

\* The pair has a blocked row, the ledger lookup of an entry to the exam page
\* failed, and the exam page has been rendered.
C26_Witness ==
    /\ resp.op = "start_exam"
    /\ OnlyLookupFailed
    /\ resp.result = "exam_view"
    /\ LoggedIn(resp.sess)
    /\ check_active_termination(resp.email, resp.exam_id, TRUE)

----------------------------------------------------------------------------
(* C27 *)

\* C27: while a session is authenticated its stored consecutive no-face count is
\* at most 4, its stored multiple-face count at most 1 and its stored cumulative
\* warning count at most 4: a session with a counter at its threshold is not
\* authenticated.
C27_CountersBelowThresholds ==
    \A s \in Sessions :
        LoggedIn(s)
           => /\ Stored(s, "no_face_count") <= 4
              /\ Stored(s, "multiple_face_count") <= 1
              /\ Stored(s, "no_face_warning_count") <= 4

\* An authenticated session one tick away from both thresholds: the no-face count
\* is 4 and the multiple-face count is 1.
C27_Witness ==
    \E s \in Sessions :
        /\ LoggedIn(s)
        /\ TableTick(s)
        /\ ~resp.terminate
        /\ Stored(s, "no_face_count") = 4
        /\ Stored(s, "multiple_face_count") = 1

----------------------------------------------------------------------------
(* C28 *)

\* The step appends a row to the result table.
ResultWritten == Len(results') = Len(results) + 1

\* C28: a step of a request handled atomically, whose ledger lookup does not
\* fail, appends a result row only for a pair that has no blocked ledger row at
\* that moment; and a submit of an authenticated session whose pair has one is
\* denied, whichever browser it comes from.
C28_NoResultWhileBlocked ==
    [][ /\ (ResultWritten /\ "check_active_termination" \notin resp'.failed)
              => ~check_active_termination(results'[Len(results')].applicantEmail,
                                           results'[Len(results')].examId, TRUE)
        /\ \A s \in Browsers :
              ( /\ SubmitStep(s)
                /\ LoggedIn(s)
                /\ resp'.exam_id = session[s]["exam_id"]
                /\ "check_active_termination" \notin resp'.failed
                /\ check_active_termination(session[s]["student_email"],
                                            session[s]["exam_id"], TRUE) )
              => /\ resp'.result = "access_denied"
                 /\ results' = results
      ]_vars

\* Both browsers were logged in for the pair before any ledger row existed; one
\* has been terminated, its row is in the ledger, and the submit of the other has
\* been denied: the result table is empty.
C28_Witness ==
    /\ DOMAIN session = Browsers
    /\ resp.op = "submit_exam" /\ resp.sess = "s2"
    /\ resp.result = "access_denied"
    /\ resp.failed = {}
    /\ ~LoggedIn("s1")
    /\ check_active_termination(resp.email, resp.exam_id, TRUE)
    /\ results = <<>>

----------------------------------------------------------------------------
(* C29 *)

\* The step is a terminating face poll or a violation report of the authenticated
\* session s whose ledger write failed.
FailedTermination(s) ==
    /\ LoggedIn(s)
    /\ resp'.sess = s
    /\ resp'.op \in {"check_face", "report_violation"}
    /\ resp'.terminate
    /\ "terminate_exam" \in resp'.failed

\* The step is a login attempt of session s with the password issued last for its
\* pair, none of whose reads fails, while the pair has no blocked ledger row.
UnblockedLoginStep(s) ==
    /\ resp'.op = "test_login" /\ resp'.sess = s
    /\ resp'.result \in {"access_denied", "invalid_credentials", "login_ok"}
    /\ resp'.failed = {}
    /\ resp'.password = CorrectPassword(resp'.email, resp'.exam_id)
    /\ ~check_active_termination(resp'.email, resp'.exam_id, TRUE)

\* C29: a terminating poll or a violation report whose ledger write fails still
\* answers 200 with the termination and de-authenticates the session, and leaves
\* the ledger as it was; and a login with the right password for a pair without
\* a blocked row, such as the pair of that session when it had none before,
\* succeeds with the three counters at 0.
C29_FailedWriteLeavesNoBlock ==
    [][ \A s \in Sessions :
          /\ FailedTermination(s)
                => /\ resp'.result = "200"
                   /\ ~LoggedIn(s)'
                   /\ terminations' = terminations
          /\ UnblockedLoginStep(s)
                => /\ resp'.result = "login_ok"
                   /\ LoggedIn(s)'
                   /\ \A k \in CounterKeys : k \in DOMAIN session'[s] /\ session'[s][k] = 0
      ]_vars

\* A poll has terminated the exam of the session (its multiple-face count of 2 was
\* still in the cookie, without the login flag), the ledger is empty, and the
\* login with the right password that followed has succeeded with the counters at 0.
C29_Witness ==
    \E s \in Sessions :
        /\ resp.op = "test_login" /\ resp.sess = s /\ resp.result = "login_ok"
        /\ resp.failed = {}
        /\ resp.password = CorrectPassword(resp.email, resp.exam_id)
        /\ ~Get(resp.before, "student_logged_in", FALSE)
        /\ Get(resp.before, "multiple_face_count", 0) = 2
        /\ terminations = <<>>
        /\ LoggedIn(s)
        /\ \A k \in CounterKeys : Stored(s, k) = 0

----------------------------------------------------------------------------
(* C30 *)

\* C30: with DeepFace available, a face poll of an authenticated session that
\* carries no image data, pre-check or not, is answered 400: it is not classified,
\* the decision table is not evaluated, the session (its counters included) and
\* the ledger are left as they are, and nothing is terminated.
C30_NoImageIsRefused ==
    [][ \A s \in Sessions, is_pre_check \in BOOLEAN :
          (DEEPFACE_AVAILABLE /\ LoggedIn(s) /\ api_check_face(s, "", is_pre_check))
             => /\ resp'.result = "400"
                /\ resp'.tick = NULL
                /\ ~resp'.table
                /\ ~resp'.terminate
                /\ session' = session
                /\ lastTick' = lastTick
                /\ terminations' = terminations
      ]_vars

\* A poll without image data has been answered 400 to an authenticated session
\* whose consecutive no-face count is 4: as a zero-face tick it would have
\* terminated the exam.
C30_Witness ==
    \E s \in Sessions :
        /\ DEEPFACE_AVAILABLE
        /\ resp.op = "check_face" /\ resp.sess = s
        /\ resp.result = "400"
        /\ LoggedIn(s)
        /\ Stored(s, "no_face_count") = 4
        /\ terminations = <<>>

====
